---- MODULE Spec2Model ----
(***************************************************************************)
(* Model of nix's FreeBSD nmount(2) option-list builder, src/mount/bsd.rs: *)
(* struct Nmount { iov: Vec<iovec>, is_owned: Vec<bool> }, its insertion   *)
(* methods, Nmount::nmount, impl Drop for Nmount, and NmountError::new.    *)
(*                                                                         *)
(* Memory is a sequence of regions, a pointer is an index into it.  A      *)
(* region records who allocated it (kind), its length in bytes, whether it *)
(* is still allocated (live) and how often it was handed to the allocator  *)
(* for release (frees).                                                    *)
(***************************************************************************)
EXTENDS Integers, Sequences, FiniteSets

VARIABLES
    iov,        \* Nmount.iov: Vec<libc::iovec>
    is_owned,   \* Nmount.is_owned: Vec<bool>
    mem,        \* the regions the descriptors can point to
    pc,         \* "alive" | "unwinding" (a panic is propagating) | "dropped" | "aborted"
    ret,        \* the value returned by the most recent operation
    syscall,    \* the libc::nmount call issued by the most recent operation, if any
    released,   \* the pointers handed to CString::from_raw by Drop, in order
    ub,         \* undefined behaviour has happened
    history,    \* the operations applied to the builder, in order, with what each appended
    um          \* the most recent call of the free function unmount, with its result

vars == <<iov, is_owned, mem, pc, ret, syscall, released, ub, history, um>>

----------------------------------------------------------------------------
(* Bounds of the exploration *)

MaxOps == 2     \* insertion operations applied to one builder
MaxCalls == 2   \* nmount calls applied to one builder

(* Program constants *)

ERRMSG_LEN == 255       \* vec![0u8; 255]
ReplacementChar == <<239, 191, 189>>   \* U+FFFD in UTF-8

----------------------------------------------------------------------------
(* Inputs *)

\* Contents of the &CStr arguments (bytes before the terminator; a CStr has
\* no interior zero byte by construction).
CNames == { <<102>> }
CVals == { <<>>, <<110, 117>> }

\* Contents of the NixPath arguments of the owned variants; a str may hold
\* an interior zero byte.
PathNames == CNames \cup { <<102, 0, 115>> }
PathVals == CVals \cup { <<0>> }

\* Lengths given to mut_ptr_opt.
PtrLens == { 0, 4 }

\* The FlagSets tried: MntFlags::empty() and MNT_RDONLY | MNT_NOEXEC.
FlagSets == { {}, {"MNT_RDONLY", "MNT_NOEXEC"} }

\* The bit of each MntFlags flag used here (FreeBSD's values).
MntFlagBit == [MNT_RDONLY |-> 1, MNT_NOEXEC |-> 4, MNT_FORCE |-> 524288]

\* MntFlags::bits(): the union of the bits of the flags in the set.
bits(flags) ==
    (IF "MNT_RDONLY" \in flags THEN MntFlagBit.MNT_RDONLY ELSE 0)
    + (IF "MNT_NOEXEC" \in flags THEN MntFlagBit.MNT_NOEXEC ELSE 0)
    + (IF "MNT_FORCE" \in flags THEN MntFlagBit.MNT_FORCE ELSE 0)

FlagBits == { bits(flags) : flags \in FlagSets }

\* Raw return codes of libc::nmount and the errno values it leaves.
KernelRes == { 0, -1 }
Errnos == { 1, 22 }

Min(a, b) == IF a < b THEN a ELSE b

\* A 255-byte buffer holding `prefix`, the rest still zero.
MkBuf(prefix) ==
    [i \in 1..ERRMSG_LEN |-> IF i <= Len(prefix) THEN prefix[i] ELSE 0]

\* A buffer that still holds the text of an earlier call.
FreshBuf_reused == MkBuf(<<97, 98, 0>>)

\* vec![0u8; 255]: the errmsg buffer of one nmount call, as allocated.
FreshBuf == MkBuf(<<>>)

\* The buffer after the kernel copied the bytes w out to its start.
Overwrite(buf, w) ==
    [i \in 1..Len(buf) |-> IF i <= Len(w) THEN w[i] ELSE buf[i]]

\* What the kernel may write to the errmsg buffer: nothing, a terminated
\* text, a zero byte and more, or 255 bytes without a zero byte.
KernelWrites ==
    { <<>>, <<97, 98, 0>>, <<0, 97>>, <<195, 169, 0>>, <<97, 255, 0>>,
      [i \in 1..ERRMSG_LEN |-> 97] }

\* The errmsg buffer of a call when the kernel returns, by what it wrote.
BufAfter == [w \in KernelWrites |-> Overwrite(FreshBuf, w)]

\* What the kernel may leave in the errmsg buffer.
KernelBufs == { BufAfter[w] : w \in KernelWrites }

----------------------------------------------------------------------------
(* Memory *)

Region(kind, len) == [kind |-> kind, len |-> len, live |-> TRUE, frees |-> 0]

\* Regions that exist before the builder: the literal b"errmsg\0" and the
\* empty slice &[].
ERRMSG_NAME == 1
EMPTY_SLICE == 2

InitMem == << Region("static", 7), Region("static", 0) >>

Iovec(base, len) == [iov_base |-> base, iov_len |-> len]

\* The builder together with the memory it points into.
St(i, o, m) == [iov |-> i, is_owned |-> o, mem |-> m, panicked |-> FALSE]

----------------------------------------------------------------------------
(* Library functions the code calls *)

\* The content without its terminator.
to_bytes_without_nul(s) == s

\* CStr::to_bytes_with_nul: the content and its terminator.
to_bytes_with_nul(s) == Append(s, 0)

HasNul(s) == \E i \in 1..Len(s) : s[i] = 0

\* NixPath::with_nix_path for str/[u8]: the closure runs on the
\* null-terminated copy, or the call fails (EINVAL) on an interior zero byte.
with_nix_path_ok(path) == ~HasNul(path)

\* Errno::result: the raw return code as Ok or Err(errno).
Errno_result(res, errno) ==
    IF res < 0 THEN [ok |-> FALSE, error |-> errno] ELSE [ok |-> TRUE, error |-> 0]

\* Index of the first zero byte of a byte sequence, 0 when there is none.
FirstNul(b) ==
    IF HasNul(b)
    THEN CHOOSE i \in 1..Len(b) : b[i] = 0 /\ \A j \in 1..(i - 1) : b[j] # 0
    ELSE 0

\* CStr::from_bytes_until_nul(..).ok(): Some(bytes before the first zero
\* byte), None when the slice holds no zero byte.  An Option is a sequence
\* of length 0 (None) or 1 (Some).
from_bytes_until_nul(b) ==
    LET n == FirstNul(b)
    IN  IF n = 0 THEN <<>> ELSE << SubSeq(b, 1, n - 1) >>

IsCont(b, i) == i <= Len(b) /\ b[i] >= 128 /\ b[i] <= 191

\* The second byte of a 3- or 4-byte UTF-8 sequence is further restricted
\* by its lead byte.
SecondOk(b, i) ==
    /\ i + 1 <= Len(b)
    /\ LET l == b[i]
           c == b[i + 1]
       IN  CASE l = 224 -> c >= 160 /\ c <= 191
             [] l = 237 -> c >= 128 /\ c <= 159
             [] l = 240 -> c >= 144 /\ c <= 191
             [] l = 244 -> c >= 128 /\ c <= 143
             [] OTHER -> c >= 128 /\ c <= 191

\* Length of the valid UTF-8 sequence starting at b[i] (1..4), or minus the
\* length of the invalid chunk starting there (what one U+FFFD replaces).
Utf8Step(b, i) ==
    LET l == b[i]
    IN  IF l < 128 THEN 1
        ELSE IF l >= 194 /\ l <= 223
             THEN IF IsCont(b, i + 1) THEN 2 ELSE -1
        ELSE IF l >= 224 /\ l <= 239
             THEN IF ~SecondOk(b, i) THEN -1
                  ELSE IF ~IsCont(b, i + 2) THEN -2
                  ELSE 3
        ELSE IF l >= 240 /\ l <= 244
             THEN IF ~SecondOk(b, i) THEN -1
                  ELSE IF ~IsCont(b, i + 2) THEN -2
                  ELSE IF ~IsCont(b, i + 3) THEN -3
                  ELSE 4
        ELSE -1

\* CStr::to_string_lossy + Cow::into_owned: the String, as its UTF-8 bytes;
\* every invalid chunk becomes U+FFFD.
RECURSIVE LossyFrom(_, _)
LossyFrom(b, i) ==
    IF i > Len(b) THEN <<>>
    ELSE LET w == Utf8Step(b, i)
         IN  IF w > 0
             THEN SubSeq(b, i, i + w - 1) \o LossyFrom(b, i + w)
             ELSE ReplacementChar \o LossyFrom(b, i - w)

to_string_lossy(b) == LossyFrom(b, 1)

----------------------------------------------------------------------------
(* Nmount's private helpers *)

\* push_slice putting the entry in front of the earlier ones.
push_slice_front(st, ptr, len, owned) ==
    [st EXCEPT !.iov = <<Iovec(ptr, len)>> \o @,
               !.is_owned = <<owned>> \o @]

push_slice(st, ptr, len, owned) ==
    [st EXCEPT !.iov = Append(@, Iovec(ptr, len)),
               !.is_owned = Append(@, owned)]

push_pointer_and_length(st, ptr, len, owned) ==
    [st EXCEPT !.iov = Append(@, Iovec(ptr, len)),
               !.is_owned = Append(@, owned)]

\* push_nix_path recording its allocation as borrowed.
push_nix_path_untagged(st, path) ==
    IF ~with_nix_path_ok(path)
    THEN [st EXCEPT !.panicked = TRUE]
    ELSE LET len == Len(to_bytes_with_nul(path))
             m == Append(st.mem, Region("owned", len))
             ptr == Len(m)
         IN  push_pointer_and_length([st EXCEPT !.mem = m], ptr, len, FALSE)

\* with_nix_path(..).unwrap(): a panic when the conversion fails, before
\* the closure ran.  Otherwise s.to_owned().into_raw() is a fresh allocation
\* holding the bytes and their terminator, pushed as owned.
push_nix_path(st, path) ==
    IF ~with_nix_path_ok(path)
    THEN [st EXCEPT !.panicked = TRUE]
    ELSE LET len == Len(to_bytes_with_nul(path))
             m == Append(st.mem, Region("owned", len))
             ptr == Len(m)
         IN  push_pointer_and_length([st EXCEPT !.mem = m], ptr, len, TRUE)

\* A region of the caller's, which the builder borrows.
CallerRegion(st, len) == [st EXCEPT !.mem = Append(@, Region("borrowed", len))]

Cur == St(iov, is_owned, mem)

\* What an operation appended to the builder.
Pushed(st) == SubSeq(st.iov, Len(iov) + 1, Len(st.iov))
PushedTags(st) == SubSeq(st.is_owned, Len(is_owned) + 1, Len(st.is_owned))

\* The arguments of an operation: the name and value contents, and the
\* length given to mut_ptr_opt.
Args(name, val, len) == [name |-> name, val |-> val, len |-> len]
NoArgs == Args(<<>>, <<>>, 0)

HistEntry(op, args, st, ok) ==
    [op |-> op, args |-> args, pushed |-> Pushed(st), tags |-> PushedTags(st),
     ok |-> ok]

RetSelf == [tag |-> "self", errno |-> 0, errmsg |-> <<>>]
RetPanic == [tag |-> "panic", errno |-> 0, errmsg |-> <<>>]
NoCall == [made |-> FALSE, iov |-> <<>>, niov |-> 0, given |-> {}, flags |-> 0,
           res |-> 0, errno |-> 0, wrote |-> <<>>]

IsInsert(h) == h.op # "nmount"
NumInserts == Cardinality({i \in 1..Len(history) : IsInsert(history[i])})
NumCalls == Cardinality({i \in 1..Len(history) : ~IsInsert(history[i])})

\* The builder can be used: it exists and no panic is unwinding through it.
Usable == pc = "alive"

\* An insertion returned normally with the builder in state st.
Inserted(op, args, st) ==
    /\ iov' = st.iov
    /\ is_owned' = st.is_owned
    /\ mem' = st.mem
    /\ history' = Append(history, HistEntry(op, args, st, TRUE))
    /\ ret' = RetSelf
    /\ syscall' = NoCall
    /\ UNCHANGED <<pc, released, ub, um>>

\* An insertion panicked (push_nix_path's unwrap) with the builder in state st.
Panicked(op, args, st) ==
    /\ iov' = st.iov
    /\ is_owned' = st.is_owned
    /\ mem' = st.mem
    /\ history' = Append(history, HistEntry(op, args, st, FALSE))
    /\ ret' = RetPanic
    /\ syscall' = NoCall
    /\ pc' = "unwinding"
    /\ UNCHANGED <<released, ub, um>>

----------------------------------------------------------------------------
(* The insertion operations *)

mut_ptr_opt(name, len) ==
    /\ Usable /\ NumInserts < MaxOps
    /\ LET nlen == Len(to_bytes_with_nul(name))
           c1 == CallerRegion(Cur, nlen)
           np == Len(c1.mem)
           c2 == CallerRegion(c1, len)
           vp == Len(c2.mem)
           s1 == push_slice(c2, np, nlen, FALSE)
           s2 == push_pointer_and_length(s1, vp, len, FALSE)
       IN  Inserted("mut_ptr_opt", Args(name, <<>>, len), s2)

\* null_opt pushing the name without a value.
null_opt_name_only(name) ==
    /\ Usable /\ NumInserts < MaxOps
    /\ LET nlen == Len(to_bytes_with_nul(name))
           c1 == CallerRegion(Cur, nlen)
           np == Len(c1.mem)
           s1 == push_slice(c1, np, nlen, FALSE)
       IN  Inserted("null_opt", Args(name, <<>>, 0), s1)

null_opt(name) ==
    /\ Usable /\ NumInserts < MaxOps
    /\ LET nlen == Len(to_bytes_with_nul(name))
           c1 == CallerRegion(Cur, nlen)
           np == Len(c1.mem)
           s1 == push_slice(c1, np, nlen, FALSE)
           s2 == push_slice(s1, EMPTY_SLICE, 0, FALSE)
       IN  Inserted("null_opt", Args(name, <<>>, 0), s2)

\* null_opt_owned recording its empty value as owned.
null_opt_owned_value_owned(name) ==
    /\ Usable /\ NumInserts < MaxOps
    /\ LET s1 == push_nix_path(Cur, name)
           s2 == push_slice(s1, EMPTY_SLICE, 0, TRUE)
       IN  IF s1.panicked
           THEN Panicked("null_opt_owned", Args(name, <<>>, 0), s1)
           ELSE Inserted("null_opt_owned", Args(name, <<>>, 0), s2)

null_opt_owned(name) ==
    /\ Usable /\ NumInserts < MaxOps
    /\ LET s1 == push_nix_path(Cur, name)
           s2 == push_slice(s1, EMPTY_SLICE, 0, FALSE)
       IN  IF s1.panicked
           THEN Panicked("null_opt_owned", Args(name, <<>>, 0), s1)
           ELSE Inserted("null_opt_owned", Args(name, <<>>, 0), s2)

str_opt(name, val) ==
    /\ Usable /\ NumInserts < MaxOps
    /\ LET nlen == Len(to_bytes_with_nul(name))
           vlen == Len(to_bytes_with_nul(val))
           c1 == CallerRegion(Cur, nlen)
           np == Len(c1.mem)
           c2 == CallerRegion(c1, vlen)
           vp == Len(c2.mem)
           s1 == push_slice(c2, np, nlen, FALSE)
           s2 == push_slice(s1, vp, vlen, FALSE)
       IN  Inserted("str_opt", Args(name, val, 0), s2)

str_opt_owned(name, val) ==
    /\ Usable /\ NumInserts < MaxOps
    /\ LET s1 == push_nix_path(Cur, name)
           s2 == push_nix_path(s1, val)
       IN  IF s1.panicked
           THEN Panicked("str_opt_owned", Args(name, val, 0), s1)
           ELSE IF s2.panicked
           THEN Panicked("str_opt_owned", Args(name, val, 0), s2)
           ELSE Inserted("str_opt_owned", Args(name, val, 0), s2)

----------------------------------------------------------------------------
(* Nmount::nmount *)

\* NmountError::new(error, errmsg): errmsg decoded lossily into a String.
NmountError_new(error, errmsg) ==
    [tag |-> "Err", errno |-> error,
     errmsg |-> IF errmsg = <<>> THEN <<>> ELSE << to_string_lossy(errmsg[1]) >>]

RetOk == [tag |-> "Ok", errno |-> 0, errmsg |-> <<>>]

\* A failure report that does not look at the first byte of the buffer.
NmountResultOf_no_first_byte(res, errno, buf) ==
    LET r == Errno_result(res, errno)
    IN  IF r.ok
        THEN [tag |-> "Ok", errno |-> 0, errmsg |-> <<>>]
        ELSE NmountError_new(r.error, from_bytes_until_nul(buf))

\* A failure that is reported only when the kernel left a text.
NmountResultOf_swallows(res, errno, buf) ==
    LET r == Errno_result(res, errno)
    IN  IF r.ok \/ buf[1] = 0
        THEN RetOk
        ELSE NmountError_new(r.error, from_bytes_until_nul(buf))

\* A result that reads the buffer whatever the return code.
NmountResultOf_reads_buf(res, errno, buf) ==
    LET r == Errno_result(res, errno)
        errmsg == IF buf[1] = 0 THEN <<>> ELSE from_bytes_until_nul(buf)
    IN  [NmountError_new(r.error, errmsg) EXCEPT !.tag = IF r.ok THEN "Ok" ELSE "Err"]

\* The match on Errno::result(res), with the buffer as the kernel left it.
NmountResultOf(res, errno, buf) ==
    LET r == Errno_result(res, errno)
    IN  IF r.ok
        THEN RetOk
        ELSE LET errmsg == IF buf[1] = 0 THEN <<>> ELSE from_bytes_until_nul(buf)
             IN  NmountError_new(r.error, errmsg)

\* A descriptor whose region is no longer allocated.
Dangling(m, d) == ~m[d.iov_base].live

\* An entry count taken before the errmsg pair was appended.
NiovOf_before_errmsg(v) == Len(v) - 2

\* self.iov.len() as c_uint
NiovOf(v) == Len(v)

\* flags: the caller's FlagSet; res, errno: what the kernel answers; wrote:
\* the bytes it writes to the errmsg buffer of this call.
nmount(flags, res, errno, wrote) ==
    /\ Usable /\ NumCalls < MaxCalls
    /\ LET m1 == Append(mem, Region("errbuf", ERRMSG_LEN))
           errmsg == Len(m1)
           s1 == push_slice(St(iov, is_owned, m1), ERRMSG_NAME, 7, FALSE)
           s2 == [s1 EXCEPT !.iov = Append(@, Iovec(errmsg, ERRMSG_LEN))]
           niov == NiovOf(s2.iov)
           buf == BufAfter[wrote]
       IN  /\ syscall' = [made |-> TRUE, iov |-> s2.iov, niov |-> niov,
                          given |-> flags, flags |-> bits(flags),
                          res |-> res, errno |-> errno,
                          wrote |-> wrote]
           /\ ub' = (ub \/ \E i \in 1..niov : Dangling(m1, s2.iov[i]))
           /\ ret' = NmountResultOf(res, errno, buf)
           /\ iov' = s2.iov
           /\ is_owned' = s2.is_owned
           \* errmsg goes out of scope when nmount returns
           /\ mem' = [m1 EXCEPT ![errmsg].live = FALSE]
           /\ history' = Append(history, HistEntry("nmount", NoArgs, s2, TRUE))
           /\ UNCHANGED <<pc, released, um>>

----------------------------------------------------------------------------
(* impl Drop for Nmount *)

\* A loop that stops one entry early.
RECURSIVE ReleaseList_stops_early(_, _, _)
ReleaseList_stops_early(v, o, i) ==
    IF i >= Min(Len(v), Len(o)) THEN <<>>
    ELSE (IF o[i] THEN << v[i].iov_base >> ELSE <<>>)
            \o ReleaseList_stops_early(v, o, i + 1)

\* The pointers of the entries the loop passes to CString::from_raw:
\* self.iov.iter().zip(self.is_owned.iter()) stops at the shorter sequence.
RECURSIVE ReleaseList(_, _, _)
ReleaseList(v, o, i) ==
    IF i > Min(Len(v), Len(o)) THEN <<>>
    ELSE (IF o[i] THEN << v[i].iov_base >> ELSE <<>>) \o ReleaseList(v, o, i + 1)

\* drop(CString::from_raw(p)) is defined only for a pointer that came from
\* CString::into_raw and was not released since.
ReleaseOk(m, p) == m[p].kind = "owned" /\ m[p].live

\* A release that forgets the allocation instead of freeing it.
Release_forget(m, p) == m

Release(m, p) == [m EXCEPT ![p].live = FALSE, ![p].frees = @ + 1]

RECURSIVE ReleaseAll(_, _, _)
ReleaseAll(m, ps, i) ==
    IF i > Len(ps) THEN m ELSE ReleaseAll(Release(m, ps[i]), ps, i + 1)

\* Position in ps of the first release that is undefined behaviour, 0 when
\* every release is defined.
RECURSIVE FirstBad(_, _, _)
FirstBad(m, ps, i) ==
    IF i > Len(ps) THEN 0
    ELSE IF ~ReleaseOk(m, ps[i]) THEN i
    ELSE FirstBad(Release(m, ps[i]), ps, i + 1)

\* The builder goes out of scope, normally or while a panic unwinds.  An
\* undefined release either aborts the process there or goes unnoticed.
Drop ==
    /\ pc \in {"alive", "unwinding"}
    /\ LET ps == ReleaseList(iov, is_owned, 1)
           bad == FirstBad(mem, ps, 1)
       IN  \/ /\ released' = ps
              /\ mem' = ReleaseAll(mem, ps, 1)
              /\ ub' = (ub \/ bad # 0)
              /\ pc' = "dropped"
              /\ iov' = <<>>
              /\ is_owned' = <<>>
           \/ /\ bad # 0
              /\ released' = SubSeq(ps, 1, bad)
              /\ mem' = ReleaseAll(mem, SubSeq(ps, 1, bad), 1)
              /\ ub' = TRUE
              /\ pc' = "aborted"
              /\ UNCHANGED <<iov, is_owned>>
    /\ syscall' = NoCall
    /\ UNCHANGED <<ret, history, um>>

----------------------------------------------------------------------------
(* pub fn unmount *)

\* The mountpoints tried: "/m", "F:1" and a str with an interior zero byte.
Mountpoints == { <<47, 109>>, <<70, 58, 49>>, <<47, 0, 109>> }

\* The FlagSets given to unmount: empty and MNT_FORCE.
UnmountFlagSets == { {}, {"MNT_FORCE"} }

\* The errno NixPath::with_nix_path fails with on an interior zero byte.
EINVAL == 22

NoUnmount ==
    [called |-> FALSE, mountpoint |-> <<>>, given |-> {}, issued |-> FALSE,
     path |-> <<>>, flags |-> 0, res |-> 0, errno |-> 0,
     ret |-> [tag |-> "none", errno |-> 0]]

\* A result that drops the error of the call.
UnmountResultOf_map_drop_all(res, errno) == [tag |-> "Ok", errno |-> 0]

\* Errno::result(res).map(drop): Result<()>, an Errno and nothing else on
\* failure.
UnmountResultOf(res, errno) ==
    LET r == Errno_result(res, errno)
    IN  IF r.ok THEN [tag |-> "Ok", errno |-> 0]
        ELSE [tag |-> "Err", errno |-> r.error]

\* mountpoint.with_nix_path(|cstr| libc::unmount(cstr.as_ptr(), flags.bits()))?
\* then Errno::result(res).map(drop).  res, errno: what the kernel answers
\* when it is called.
unmount(mountpoint, flags, res, errno) ==
    /\ pc \in {"alive", "dropped"}
    /\ um' = IF ~with_nix_path_ok(mountpoint)
             THEN [NoUnmount EXCEPT !.called = TRUE,
                                    !.mountpoint = mountpoint,
                                    !.given = flags,
                                    !.ret = [tag |-> "Err", errno |-> EINVAL]]
             ELSE [called |-> TRUE, mountpoint |-> mountpoint, given |-> flags,
                   issued |-> TRUE, path |-> to_bytes_with_nul(mountpoint),
                   flags |-> bits(flags), res |-> res, errno |-> errno,
                   ret |-> UnmountResultOf(res, errno)]
    /\ UNCHANGED <<iov, is_owned, mem, pc, ret, syscall, released, ub, history>>

----------------------------------------------------------------------------
(* Nmount::new and the behaviours of one builder *)

Init ==
    /\ iov = <<>>
    /\ is_owned = <<>>
    /\ mem = InitMem
    /\ pc = "alive"
    /\ ret = RetSelf
    /\ syscall = NoCall
    /\ released = <<>>
    /\ ub = FALSE
    /\ history = <<>>
    /\ um = NoUnmount

Next ==
    \/ \E name \in CNames, len \in PtrLens : mut_ptr_opt(name, len)
    \/ \E name \in CNames : null_opt(name)
    \/ \E name \in PathNames : null_opt_owned(name)
    \/ \E name \in CNames, val \in CVals : str_opt(name, val)
    \/ \E name \in PathNames, val \in PathVals : str_opt_owned(name, val)
    \/ \E flags \in FlagSets, res \in KernelRes, wrote \in KernelWrites :
          \E errno \in (IF res < 0 THEN Errnos ELSE {0}) :
             nmount(flags, res, errno, wrote)
    \/ Drop

Spec == Init /\ [][Next]_vars

----------------------------------------------------------------------------
(* Vocabulary of the properties *)

Ops == 1..Len(history)
OwnedRegions == {p \in 1..Len(mem) : mem[p].kind = "owned"}
ReleasedSet == {released[i] : i \in 1..Len(released)}

\* The pointers of the entries the operations tagged owned.
TaggedOwnedBy(h) ==
    {h.pushed[j].iov_base : j \in {k \in 1..Len(h.tags) : h.tags[k]}}
TaggedOwned == UNION {TaggedOwnedBy(history[i]) : i \in Ops}

\* The builder is gone: Drop ran (to its end, or until the process aborted).
Gone == pc \in {"dropped", "aborted"}

\* Insertions, then at most one nmount call, nothing after it.
InsertsThenAtMostOneCall ==
    \A i \in Ops : history[i].op = "nmount" => i = Len(history)

IsPrefix(s, t) == Len(s) <= Len(t) /\ SubSeq(t, 1, Len(s)) = s

----------------------------------------------------------------------------
(* C1: after any insertions followed by at most one nmount call and the
   discard of the builder, or by the discard alone, every entry tagged owned
   has been released exactly once: Drop ran to its end, each such region
   (and so each region an owned variant allocated) was handed to the
   allocator once and is no longer allocated, and nothing was released
   twice. *)
C1_OwnedReleasedExactlyOnce ==
    (Gone /\ InsertsThenAtMostOneCall) =>
        /\ pc = "dropped"
        /\ \A p \in TaggedOwned \cup OwnedRegions :
              mem[p].frees = 1 /\ ~mem[p].live
        /\ \A p \in 1..Len(mem) : mem[p].frees <= 1

\* Borrowed and owned insertions, an nmount call, the builder discarded.
C1_Witness ==
    /\ pc = "dropped"
    /\ InsertsThenAtMostOneCall
    /\ NumCalls = 1
    /\ Cardinality(TaggedOwned) >= 2
    /\ \E i \in Ops : history[i].op = "str_opt"

(* C2: after any sequence of insertions and nmount calls, insertions after an
   nmount call included, the release pass of the discard releases no borrowed
   entry and neither errmsg entry: the released regions are exactly the
   regions the owned insertion variants allocated. *)
C2_ReleasesExactlyOwned ==
    Gone => /\ ReleasedSet = OwnedRegions
            /\ \A i \in 1..Len(released) : mem[released[i]].kind = "owned"

C4_NothingAfterNmount ==
    \A i \in Ops : history[i].op = "nmount" => i = Len(history)

(* C5: in every reachable state the entry sequence and the ownership-tag
   sequence have the same length. *)
C5_SameLength == Len(iov) = Len(is_owned)

(* C6: before the first nmount call, after k completed insertions on a new
   builder, the builder holds exactly 2k entries: the i-th insertion's name
   entry (the name's bytes and terminator) at 2i-1, immediately followed by
   its value entry at 2i. *)
C6_TwoEntriesPerInsertion ==
    (pc = "alive" /\ NumCalls = 0) =>
        /\ Len(iov) = 2 * Len(history)
        /\ \A i \in Ops :
              /\ Len(history[i].pushed) = 2
              /\ iov[2 * i - 1] = history[i].pushed[1]
              /\ iov[2 * i] = history[i].pushed[2]
              /\ iov[2 * i - 1].iov_len = Len(history[i].args.name) + 1

\* Two insertions, one of them flag-only, no nmount call yet.
C6_Witness ==
    /\ pc = "alive"
    /\ NumCalls = 0
    /\ Len(history) = 2
    /\ \E i \in Ops : history[i].op = "null_opt"

OwnedVariants == {"str_opt_owned", "null_opt_owned"}

\* Every insertion went through an owned-string variant and completed.
OnlyOwnedInserts ==
    \A i \in Ops :
        IsInsert(history[i]) => history[i].op \in OwnedVariants /\ history[i].ok

NumOp(op) == Cardinality({i \in Ops : history[i].op = op})

(* C7, as claimed: after N insertions made only through str_opt_owned and
   null_opt_owned, the builder finalized or discarded releases exactly 2N
   owned regions, each exactly once. *)
C7_ReleasesTwoPerInsertion ==
    (Gone /\ OnlyOwnedInserts /\ InsertsThenAtMostOneCall) =>
        /\ Len(released) = 2 * NumInserts
        /\ Cardinality(ReleasedSet) = Len(released)

(* C7, amended: after insertions made only through str_opt_owned and
   null_opt_owned, the builder finalized or discarded releases exactly two
   owned regions for each str_opt_owned and one (the name) for each
   null_opt_owned, each exactly once: the empty value of null_opt_owned is
   borrowed and is not released. *)
C7_ReleasesWhatOwnedVariantsAllocate ==
    (Gone /\ OnlyOwnedInserts /\ InsertsThenAtMostOneCall) =>
        /\ pc = "dropped"
        /\ Len(released) = 2 * NumOp("str_opt_owned") + NumOp("null_opt_owned")
        /\ Cardinality(ReleasedSet) = Len(released)
        /\ \A p \in ReleasedSet : mem[p].kind = "owned" /\ mem[p].frees = 1

\* One insertion through each owned variant, an nmount call, the discard.
C7_Witness ==
    /\ pc = "dropped"
    /\ OnlyOwnedInserts
    /\ InsertsThenAtMostOneCall
    /\ NumCalls = 1
    /\ NumOp("str_opt_owned") = 1
    /\ NumOp("null_opt_owned") = 1

\* The kernel call of the most recent operation failed.
CallFailed == syscall.made /\ ret.tag = "Err"

\* The errmsg buffer of that call as the kernel left it.
SyscallBuf == BufAfter[syscall.wrote]

\* The bytes before the first zero byte, the whole sequence when it has none.
BeforeNul(b) == IF HasNul(b) THEN SubSeq(b, 1, FirstNul(b) - 1) ELSE b

IsAscii(b) == \A i \in 1..Len(b) : b[i] < 128

(* C8, as claimed: when the kernel call fails, a zero first byte of the
   diagnostic buffer gives an ErrorReport without text, and a non-zero first
   byte gives text equal to the buffer bytes before the first zero byte (the
   whole buffer when it holds no zero byte). *)
C8_TextIsBufferBeforeNul ==
    CallFailed =>
        /\ SyscallBuf[1] = 0 => ret.errmsg = <<>>
        /\ SyscallBuf[1] # 0 => ret.errmsg = << BeforeNul(SyscallBuf) >>

(* C8, amended: when the kernel call fails, a zero first byte of the
   diagnostic buffer gives an ErrorReport without text; a non-zero first byte
   in a buffer that holds a zero byte gives text equal to the lossy UTF-8
   decoding of the bytes before the first zero byte (those bytes themselves
   when they are ASCII, U+FFFD for each invalid chunk otherwise); a buffer
   of 255 bytes without a zero byte gives an ErrorReport without text. *)
C8_TextIsLossyDecodingBeforeNul ==
    CallFailed =>
        /\ SyscallBuf[1] = 0 => ret.errmsg = <<>>
        /\ (SyscallBuf[1] # 0 /\ HasNul(SyscallBuf)) =>
              /\ ret.errmsg = << to_string_lossy(BeforeNul(SyscallBuf)) >>
              /\ IsAscii(BeforeNul(SyscallBuf)) =>
                    ret.errmsg = << BeforeNul(SyscallBuf) >>
        /\ ~HasNul(SyscallBuf) => ret.errmsg = <<>>

\* A failed call whose diagnostic text holds an invalid byte, replaced.
C8_Witness ==
    /\ CallFailed
    /\ SyscallBuf[1] # 0
    /\ ~IsAscii(BeforeNul(SyscallBuf))
    /\ ret.errmsg = << <<97>> \o ReplacementChar >>

(* C9: when the kernel call succeeds the result is success, the same value
   whatever the diagnostic buffer holds: no part of the result comes from
   the buffer. *)
C9_SuccessIgnoresBuffer ==
    (syscall.made /\ syscall.res >= 0) => ret = RetOk

\* A successful call that left text in the diagnostic buffer.
C9_Witness ==
    /\ syscall.made
    /\ syscall.res >= 0
    /\ SyscallBuf[1] # 0
    /\ ret.tag = "Ok"

\* The entries the insertions appended, in the order the insertions were made.
RECURSIVE InsertedUpTo(_)
InsertedUpTo(n) ==
    IF n = 0 THEN <<>>
    ELSE InsertedUpTo(n - 1)
            \o (IF IsInsert(history[n]) THEN history[n].pushed ELSE <<>>)

InsertedEntries == InsertedUpTo(Len(history))

IsErrmsgEntry(d) == d.iov_base = ERRMSG_NAME \/ mem[d.iov_base].kind = "errbuf"

\* The descriptors handed to the kernel, the errmsg pairs left out.
KernelPairs == SelectSeq(syscall.iov, LAMBDA d : ~IsErrmsgEntry(d))

(* C10: every insertion and every nmount call is append-only: the entries
   and tags present before it keep their value and position, and the
   descriptor array handed to the kernel lists the inserted name/value
   pairs in the order the insertions were made. *)
C10_AppendOnly ==
    [][history' # history =>
          /\ IsPrefix(iov, iov')
          /\ IsPrefix(is_owned, is_owned')
          /\ syscall'.made => KernelPairs' = InsertedEntries']_vars

\* A kernel call that follows a borrowed and an owned insertion and an
\* earlier nmount call.
C10_Witness ==
    /\ syscall.made
    /\ NumCalls = 2
    /\ NumOp("str_opt") = 1
    /\ NumOp("str_opt_owned") = 1
    /\ history[1].op = "str_opt_owned"

\* Bit number b (0 is the lowest) is set in the flag word n.
HasBit(n, b) == (n \div (2 ^ b)) % 2 = 1

FlagWordBits == 0..30

\* The flag word holds exactly the bits of the flags in the set.
ExactlyBitsOf(n, flags) ==
    /\ n >= 0 /\ n \div 2 < 2 ^ 30
    /\ \A b \in FlagWordBits :
          HasBit(n, b) <=> \E f \in flags : MntFlagBit[f] = 2 ^ b

(* C11: the kernel call of the first nmount call on a builder with k
   completed insertions receives the 2k inserted descriptors, then the
   errmsg name (7 bytes) and the 255-byte zero-initialized errmsg buffer as
   its last two descriptors, a descriptor count of exactly 2k + 2, and a flag
   word holding exactly the bits of the caller's FlagSet (zero for the empty
   set). *)
C11_FirstCallArguments ==
    (syscall.made /\ NumCalls = 1) =>
        LET n == 2 * NumInserts
            d == syscall.iov
        IN  /\ syscall.niov = n + 2
            /\ Len(d) = n + 2
            /\ SubSeq(d, 1, n) = InsertedEntries
            /\ d[n + 1] = Iovec(ERRMSG_NAME, 7)
            /\ mem[ERRMSG_NAME].len = 7
            /\ d[n + 2].iov_len = ERRMSG_LEN
            /\ d[n + 2].iov_base = Len(mem)
            /\ mem[d[n + 2].iov_base].kind = "errbuf"
            /\ mem[d[n + 2].iov_base].len = ERRMSG_LEN
            /\ Len(FreshBuf) = ERRMSG_LEN
            /\ \A i \in 1..ERRMSG_LEN : FreshBuf[i] = 0
            /\ ExactlyBitsOf(syscall.flags, syscall.given)
            /\ syscall.given = {} => syscall.flags = 0

\* A first call with a non-empty FlagSet on a builder holding two options.
C11_Witness ==
    /\ syscall.made
    /\ NumCalls = 1
    /\ NumInserts = 2
    /\ syscall.given = {"MNT_RDONLY", "MNT_NOEXEC"}
    /\ syscall.flags = 5

----------------------------------------------------------------------------
(* One builder whose nmount calls are answered with any raw return code *)

\* Raw return codes on both sides of zero, beyond the 0 and -1 of nmount(2).
RawCodes == {-2, -1, 0, 1, 2}

NextCodes ==
    \/ \E name \in CNames : null_opt(name)
    \/ \E res \in RawCodes, wrote \in {<<>>, <<97, 98, 0>>} :
          \E errno \in (IF res < 0 THEN Errnos ELSE {0}) :
             nmount({}, res, errno, wrote)
    \/ Drop

SpecCodes == Init /\ [][NextCodes]_vars

(* C12: nmount returns success exactly when the raw return code of the
   kernel call is non-negative; for every negative return code it returns an
   ErrorReport carrying the errno of that call, whatever the errmsg buffer
   holds: no failure is turned into success or loses its error code. *)
C12_SuccessIffNonNegative ==
    syscall.made =>
        /\ ret.tag \in {"Ok", "Err"}
        /\ ret.tag = "Ok" <=> syscall.res >= 0
        /\ syscall.res < 0 =>
              /\ ret.tag = "Err"
              /\ ret.errno = syscall.errno
              /\ ret.errno \in Errnos

\* A call answered -2 with errno 22 and nothing in the errmsg buffer.
C12_Witness ==
    /\ syscall.made
    /\ syscall.res = -2
    /\ syscall.errno = 22
    /\ syscall.wrote = <<>>
    /\ ret.tag = "Err"
    /\ ret.errno = 22

----------------------------------------------------------------------------
(* unmount called while a builder is assembled, used and discarded *)

NextUnmount ==
    \/ \E name \in CNames, val \in CVals : str_opt(name, val)
    \/ \E name \in PathNames : null_opt_owned(name)
    \/ \E res \in KernelRes, wrote \in {<<>>, <<97, 98, 0>>} :
          \E errno \in (IF res < 0 THEN Errnos ELSE {0}) :
             nmount({}, res, errno, wrote)
    \/ Drop
    \/ \E mountpoint \in Mountpoints, flags \in UnmountFlagSets, res \in KernelRes :
          \E errno \in (IF res < 0 THEN Errnos ELSE {0}) :
             unmount(mountpoint, flags, res, errno)

SpecUnmount == Init /\ [][NextUnmount]_vars

(* C13, as claimed: every unmount issues the detach call with the given
   string and exactly the bits of the given FlagSet, and returns success or
   the errno of that call. *)
C13_AlwaysIssuesDetach ==
    um.called =>
        /\ um.issued
        /\ um.path = to_bytes_with_nul(um.mountpoint)
        /\ ExactlyBitsOf(um.flags, um.given)
        /\ um.ret.tag = "Err" => um.ret.errno = um.errno

(* C13, amended: for a mountpoint without an interior zero byte, unmount
   issues one detach call with that string, null-terminated, and exactly the
   bits of the given FlagSet, and returns success when the raw return code is
   non-negative and the errno of the call otherwise; for a mountpoint with an
   interior zero byte it issues no call and returns the conversion error
   EINVAL.  Its result holds an error code and no text, and it is stateless:
   the call leaves the builder, its entries, the memory and the result of the
   builder's operations unchanged, and its result is determined by its
   arguments and the kernel's answer alone. *)
C13_DetachOrConversionError ==
    [][um' # um =>
          /\ UNCHANGED <<iov, is_owned, mem, pc, ret, syscall, released, ub, history>>
          /\ um'.called
          /\ DOMAIN um'.ret = {"tag", "errno"}
          /\ IF HasNul(um'.mountpoint)
             THEN /\ ~um'.issued
                  /\ um'.ret = [tag |-> "Err", errno |-> EINVAL]
             ELSE /\ um'.issued
                  /\ um'.path = um'.mountpoint \o <<0>>
                  /\ ExactlyBitsOf(um'.flags, um'.given)
                  /\ um'.given = {} => um'.flags = 0
                  /\ um'.res >= 0 => um'.ret = [tag |-> "Ok", errno |-> 0]
                  /\ um'.res < 0 =>
                        um'.ret = [tag |-> "Err", errno |-> um'.errno]]_vars

\* A forced unmount that failed, called while the builder holds entries and
\* has made an nmount call.
C13_Witness ==
    /\ um.issued
    /\ um.given = {"MNT_FORCE"}
    /\ um.flags = 524288
    /\ um.ret = [tag |-> "Err", errno |-> 1]
    /\ Len(iov) = 4
    /\ NumCalls = 1
    /\ OwnedRegions # {}

----------------------------------------------------------------------------
(* C14: at every kernel call nmount issues, a second or later call on the
   same builder included, the descriptor array holds exactly one errmsg pair
   (one errmsg name, one errmsg buffer) and every descriptor refers to a
   region that is allocated during the call: none refers to the errmsg buffer
   of an earlier call, released when that call returned. *)
C14_OneLiveErrmsgPair ==
    syscall.made =>
        LET d == syscall.iov
            own == d[Len(d)].iov_base
        IN  /\ Cardinality({i \in 1..Len(d) : d[i].iov_base = ERRMSG_NAME}) = 1
            /\ Cardinality({i \in 1..Len(d) :
                                mem[d[i].iov_base].kind = "errbuf"}) = 1
            /\ \A i \in 1..Len(d) :
                  mem[d[i].iov_base].live \/ d[i].iov_base = own

----------------------------------------------------------------------------
\* The tags of the name and value entries of an insertion, v being the tag
\* of the empty value of null_opt_owned.
TagsOf(op, v) ==
    CASE op \in {"str_opt", "null_opt", "mut_ptr_opt"} -> <<FALSE, FALSE>>
      [] op = "str_opt_owned" -> <<TRUE, TRUE>>
      [] op = "null_opt_owned" -> <<TRUE, v>>

\* Every completed insertion appended two entries tagged as TagsOf says.
TagsAre(v) ==
    \A i \in Ops :
        (IsInsert(history[i]) /\ history[i].ok) =>
            /\ history[i].tags = TagsOf(history[i].op, v)
            /\ Len(history[i].pushed) = 2

(* C15, as claimed: str_opt, null_opt and mut_ptr_opt tag both entries
   borrowed; str_opt_owned tags both owned; null_opt_owned tags its name
   owned and its empty value owned. *)
C15_TagsAsClaimed == TagsAre(TRUE)

(* C15, amended: str_opt, null_opt and mut_ptr_opt tag both the name and the
   value entry borrowed; str_opt_owned tags both owned; null_opt_owned tags
   its name owned and its empty value borrowed.  An entry is tagged owned
   exactly when it points to a region the builder allocated itself. *)
C15_TagsPerOperation ==
    /\ TagsAre(FALSE)
    /\ \A i \in Ops :
          (IsInsert(history[i]) /\ history[i].ok) =>
              \A j \in 1..2 :
                  history[i].tags[j]
                      <=> mem[history[i].pushed[j].iov_base].kind = "owned"

\* A builder on which null_opt_owned and str_opt_owned completed.
C15_Witness ==
    /\ pc = "alive"
    /\ NumCalls = 0
    /\ Len(history) = 2
    /\ history[1].op = "null_opt_owned" /\ history[1].ok
    /\ history[2].op = "str_opt_owned" /\ history[2].ok
    /\ is_owned = <<TRUE, FALSE, TRUE, TRUE>>

----------------------------------------------------------------------------
StringValued == {"str_opt", "str_opt_owned"}
FlagOnly == {"null_opt", "null_opt_owned"}

(* C16: for every completed insertion, the name entry of a name of n bytes,
   borrowed or owned, has length n + 1 (its terminator counted); the value
   entry of a string value of m bytes (str_opt, str_opt_owned) has length
   m + 1; the value entry of a flag-only option (null_opt, null_opt_owned)
   has length 0; the value entry of mut_ptr_opt holds the caller's pointer
   and exactly the length the caller gave.  Each entry's length is the
   length of the region it points to. *)
C16_DescriptorLengths ==
    \A i \in Ops :
        (IsInsert(history[i]) /\ history[i].ok) =>
            LET h == history[i]
                n == h.pushed[1]
                v == h.pushed[2]
            IN  /\ n.iov_len = Len(h.args.name) + 1
                /\ mem[n.iov_base].len = n.iov_len
                /\ mem[v.iov_base].len = v.iov_len
                /\ h.op \in StringValued => v.iov_len = Len(h.args.val) + 1
                /\ h.op \in FlagOnly =>
                      v.iov_len = 0 /\ v.iov_base = EMPTY_SLICE
                /\ h.op = "mut_ptr_opt" =>
                      /\ v.iov_len = h.args.len
                      /\ mem[v.iov_base].kind = "borrowed"
                      /\ v.iov_base = n.iov_base + 1

\* mut_ptr_opt given 4 bytes, then str_opt_owned given a two-byte value.
C16_Witness ==
    /\ Len(history) = 2
    /\ history[1].op = "mut_ptr_opt"
    /\ history[1].args.len = 4
    /\ history[1].pushed[2].iov_len = 4
    /\ history[2].op = "str_opt_owned" /\ history[2].ok
    /\ history[2].args.val = <<110, 117>>
    /\ history[2].pushed[1].iov_len = 2
    /\ history[2].pushed[2].iov_len = 3

----------------------------------------------------------------------------
\* The step is an nmount call.
NmountStep == history' # history /\ syscall'.made

(* C17: each nmount call uses a new zero-initialized errmsg buffer: when the
   kernel writes nothing into the buffer of a failing call, its ErrorReport
   has no text, also when the call follows directly an nmount call on the
   same builder that failed with a text; and when the call reports a text,
   it is the text the kernel wrote during this call. *)
C17_FreshBufferEachCall ==
    [][(NmountStep /\ ret'.tag = "Err") =>
          /\ syscall'.wrote = <<>> => ret'.errmsg = <<>>
          /\ (syscall'.wrote = <<>> /\ CallFailed /\ ret.errmsg # <<>>) =>
                ret'.errmsg # ret.errmsg
          /\ ret'.errmsg # <<>> =>
                /\ syscall'.wrote # <<>>
                /\ ret'.errmsg =
                      << to_string_lossy(BeforeNul(syscall'.wrote)) >>]_vars

\* A second call that failed with nothing written by the kernel and reports
\* no text.
C17_Witness ==
    /\ CallFailed
    /\ NumCalls = 2
    /\ history[Len(history) - 1].op = "nmount"
    /\ syscall.wrote = <<>>
    /\ ret.errmsg = <<>>

----------------------------------------------------------------------------
(* C18: every owned insertion is atomic with respect to failure: when the
   conversion of the name or of the value of str_opt_owned or null_opt_owned
   fails, the operation has appended no entry and no tag (no lone name
   entry), so that before any nmount call the entry count is even. *)
C18_FailedInsertionAppendsNothing ==
    /\ \A i \in Ops :
          (history[i].op \in OwnedVariants /\ ~history[i].ok) =>
              history[i].pushed = <<>> /\ history[i].tags = <<>>
    /\ (NumCalls = 0 /\ ~Gone) => Len(iov) % 2 = 0

====
